---- MODULE Spec2Model ----
(***************************************************************************)
(* Model of returnn/torch/data/returnn_dataset_wrapper.py: the three       *)
(* wrappers that expose a RETURNN dataset to a PyTorch data pipeline.      *)
(*                                                                         *)
(* One behaviour is the lifetime of one wrapper object: it is constructed, *)
(* then reset, iterated, measured and indexed in any order.  The wrapped   *)
(* dataset is an external collaborator: its answers are a function of the  *)
(* dataset and of the epoch the reset callback announced, and any of its   *)
(* calls may raise.  An operation is one action, from call to return,      *)
(* raise or yield (the program is single threaded); a generator is resumed *)
(* by next() and runs to its next yield, to its end or to an exception.    *)
(***************************************************************************)
EXTENDS Integers, Sequences, FiniteSets, TLC

\* ------------------------------------------------------------------ bounds
\* Largest num_seqs of a dataset of the catalogue.
MaxSeqs == 2
\* Number of epochs the reset callback may announce.
MaxEpoch == 1
\* Number of generators of the iterable wrapper a client holds at once.
NumIters == 1

\* ------------------------------------------------------------ the dataset
None == "None"

\* The data key lists a dataset may declare (get_data_keys()).
KeyLists == {<< >>, <<"data">>, <<"classes", "data">>}

Range(s) == {s[j] : j \in 1..Len(s)}

\* The datasets a wrapper may be given.  A dataset is identified with its
\* description: its num_seqs, its data keys and the capabilities it declares.
Datasets ==
    {[numSeqs |-> n, keys |-> ks, haveIdx |-> TRUE, haveSeq |-> TRUE] :
        n \in 0..MaxSeqs, ks \in KeyLists}
    \cup
    {[numSeqs |-> 1, keys |-> <<"data">>, haveIdx |-> a, haveSeq |-> b] :
        a \in BOOLEAN, b \in BOOLEAN}

\* The reset callbacks a client may supply.
Callbacks == {"init_epoch"}

\* Dataset.get_data_keys()
get_data_keys(ds) == ds.keys

\* Dataset.is_less_than_num_seqs(n)
is_less_than_num_seqs(ds, n) == n < ds.numSeqs

\* Dataset.get_data(seq_idx, key): the array of that sequence and key in the
\* current epoch's order.
get_data(ds, ep, i, k) == [seq |-> i, key |-> k, epoch |-> ep]

\* Dataset.num_seqs
num_seqs(ds) == ds.numSeqs

\* Dataset.get_total_num_seqs(): the corpus is larger than one epoch's part.
get_total_num_seqs(ds) == ds.numSeqs + 1

\* Dataset.have_corpus_seq_idx(), Dataset.have_get_corpus_seq()
have_corpus_seq_idx(ds) == ds.haveIdx
have_get_corpus_seq(ds) == ds.haveSeq

\* Dataset.get_corpus_seq_idx(seq_idx): the epoch's order is a rotation of the
\* corpus, never the identity.
get_corpus_seq_idx(ds, ep, i) == (i + ep + 1) % get_total_num_seqs(ds)

\* Dataset.get_corpus_seq(corpus_seq_idx).features
corpus_seq_features(ds, c) == [k \in Range(ds.keys) |-> [corpus |-> c, key |-> k]]

\* The exception a failing dataset call raises: it names the call.
DatasetError(call) == [exc |-> "DatasetError", call |-> call]

\* The dataset calls that may be made to fail in one operation.  pos is the
\* position of the failing get_data call in the key list.
Faults ==
    {[call |-> c, pos |-> 0] :
        c \in {"none", "get_data_keys", "is_less_than_num_seqs", "load_seqs",
               "get_corpus_seq_idx", "get_corpus_seq"}}
    \cup {[call |-> "get_data", pos |-> j] : j \in 1..2}

\* ------------------------------------------------------------------ state
VARIABLES
    w,        \* the wrapper object: its class and its attributes
    iters,    \* the generators made by IterableDatasetWrapper.__iter__
    epoch,    \* the epoch of the dataset, advanced by the reset callback
    ret       \* the last operation and what the caller got from it

vars == <<w, iters, epoch, ret>>

Kinds == {"IterableDatasetWrapper", "MapStyleDatasetPerEpochWrapper",
          "MapStyleDatasetFullWrapper"}
MapKinds == {"MapStyleDatasetPerEpochWrapper", "MapStyleDatasetFullWrapper"}

IterIds == 1..NumIters

NoDataset == [numSeqs |-> 0, keys |-> << >>, haveIdx |-> FALSE, haveSeq |-> FALSE]

\* No wrapper object yet.
NoWrapper == [kind |-> None, attrs |-> FALSE, dataset |-> NoDataset, callback |-> None]

\* No exception.
NoExc == [exc |-> None, call |-> << >>]

\* A generator slot that holds no generator.  A generator has its position
\* (st, the local variables seq_index and data_keys) and, for the record, the
\* indices it yielded, the dataset calls it made, the exception that ended it
\* and whether the generator the client held before it had yielded an item.
NoIter == [st |-> "none", seq_index |-> 0, data_keys |-> << >>,
           yielded |-> << >>, calls |-> << >>, raised |-> NoExc, again |-> FALSE]

\* Constructor arguments: none, or a dataset and an optional callback.
NoArgs == [given |-> FALSE, dataset |-> NoDataset, callback |-> None]
CtorArgs ==
    {NoArgs} \cup
    {[given |-> TRUE, dataset |-> d, callback |-> c] :
        d \in Datasets, c \in Callbacks \cup {None}}

Init ==
    /\ w = NoWrapper
    /\ iters = [i \in IterIds |-> NoIter]
    /\ epoch = 0
    /\ ret = [op |-> "start", kind |-> "ok"]

\* ---------------------------------------------------------- construction
\* Whether the class body defines __init__.  The map-style classes name their
\* initialiser __int__, so the constructor finds only the inherited one, which
\* takes no arguments.
DefinesInit(kind) == kind = "IterableDatasetWrapper"

\* __init__ / __int__ bodies: the two attribute assignments.
WithAttrs(kind, args) ==
    [kind |-> kind, attrs |-> TRUE, dataset |-> args.dataset,
     callback |-> args.callback]

\* Cls(returnn_dataset, reset_callback=...) or Cls().
Construct(kind, args) ==
    /\ w.kind = None
    /\ IF DefinesInit(kind) = args.given
       THEN /\ w' = IF args.given THEN WithAttrs(kind, args)
                    ELSE [NoWrapper EXCEPT !.kind = kind]
            /\ ret' = [op |-> "construct", kind |-> "ok", cls |-> kind, args |-> args]
       ELSE /\ w' = w
            /\ ret' = [op |-> "construct", kind |-> "raise", cls |-> kind,
                       args |-> args, exc |-> "TypeError"]
    /\ UNCHANGED <<iters, epoch>>

\* The assertion of each __int__.
CapabilitiesOk(kind, ds) ==
    IF kind = "MapStyleDatasetPerEpochWrapper"
    THEN have_corpus_seq_idx(ds) /\ have_get_corpus_seq(ds)
    ELSE have_get_corpus_seq(ds)

\* obj.__int__(returnn_dataset, reset_callback=...): the method the map-style
\* classes define; only an explicit call (or int(obj), without arguments) runs it.
CallInt(args) ==
    /\ w.kind \in MapKinds
    /\ IF ~args.given
       THEN /\ w' = w
            /\ ret' = [op |-> "__int__", kind |-> "raise", args |-> args,
                       exc |-> "TypeError"]
       ELSE IF ~CapabilitiesOk(w.kind, args.dataset)
       THEN /\ w' = w
            /\ ret' = [op |-> "__int__", kind |-> "raise", args |-> args,
                       exc |-> "AssertionError"]
       ELSE /\ w' = WithAttrs(w.kind, args)
            /\ ret' = [op |-> "__int__", kind |-> "ok", args |-> args]
    /\ UNCHANGED <<iters, epoch>>

\* ------------------------------------------------------------------ reset
\* The callback invocations of one reset(): the callback and its argument.
ResetCalls(wr) ==
    IF wr.callback # None
    THEN <<[cb |-> wr.callback, arg |-> wr.dataset]>>
    ELSE << >>

\* reset() of any of the three classes.  The callback initialises the next
\* epoch of the dataset it is handed.
Reset ==
    /\ w.kind # None
    /\ IF ~w.attrs
       THEN /\ ret' = [op |-> "reset", kind |-> "raise", exc |-> "AttributeError"]
            /\ epoch' = epoch
       ELSE /\ Len(ResetCalls(w)) > 0 => epoch < MaxEpoch
            /\ ret' = [op |-> "reset", kind |-> "ok", cbCalls |-> ResetCalls(w)]
            /\ epoch' = epoch + Len(ResetCalls(w))
    /\ UNCHANGED <<w, iters>>

\* -------------------------------------------------------------- iteration
\* Faulty variant of Iter: starting an iteration also runs the reset callback.
IterWithReset(i) ==
    /\ w.kind = "IterableDatasetWrapper"
    /\ Len(ResetCalls(w)) > 0 => epoch < MaxEpoch
    /\ iters' = [iters EXCEPT ![i] = [NoIter EXCEPT !.st = "fresh",
                                      !.again = iters[i].yielded # << >>]]
    /\ ret' = [op |-> "iter", kind |-> "ok", it |-> i]
    /\ epoch' = epoch + Len(ResetCalls(w))
    /\ w' = w

\* iter(wrapper): a new generator; its body has not run yet.
Iter(i) ==
    /\ w.kind = "IterableDatasetWrapper"
    /\ iters' = [iters EXCEPT ![i] = [NoIter EXCEPT !.st = "fresh",
                                      !.again = iters[i].yielded # << >>]]
    /\ ret' = [op |-> "iter", kind |-> "ok", it |-> i]
    /\ UNCHANGED <<w, epoch>>

\* seq_index = 0
StartIndex == 0

\* Faulty variant of NextIndex: the index advances by two.
NextIndexSkip(i) == i + 2

\* seq_index += 1
NextIndex(i) == i + 1

\* Faulty variant of LoadWindow: the window always starts at the first sequence.
LoadWindowFromStart(i) == <<0, i + 1>>

\* The window of load_seqs(seq_index, seq_index + 1).
LoadWindow(i) == <<i, i + 1>>

\* Faulty variant of BuildData: every value is read with the first data key.
BuildDataFirstKey(ds, ep, i, ks) == [k \in Range(ks) |-> get_data(ds, ep, i, ks[1])]

\* The dict comprehension {data_key: get_data(seq_index, data_key) ...}.
BuildData(ds, ep, i, ks) == [k \in Range(ks) |-> get_data(ds, ep, i, k)]

\* The get_data calls of the comprehension up to the n-th key.
GetDataCalls(i, ks, n) == [j \in 1..n |-> <<"get_data", i, ks[j]>>]

\* The generator ends: by return (StopIteration) or by an exception.
Finish(it, calls, e) ==
    [it |-> [it EXCEPT !.st = "closed", !.calls = calls, !.raised = e],
     out |-> IF e = NoExc THEN [kind |-> "stop"] ELSE [kind |-> "raise", exc |-> e]]

\* Faulty variant of Raise: the dataset's exception is caught and another one raised.
RaiseWrapped(it, calls) ==
    Finish(it, calls, [exc |-> "RuntimeError", call |-> calls[Len(calls)]])

\* The exception raised by the dataset call that ends the log `calls`.
Raise(it, calls) == Finish(it, calls, DatasetError(calls[Len(calls)]))

\* One pass of the while loop, from its test at it.seq_index to the yield, the
\* return or the exception.  The dataset holds the window load_seqs names;
\* get_data of a sequence outside it fails.
LoopPass(it, ds, ep, fault) ==
    LET i  == it.seq_index
        ks == it.data_keys
        c1 == Append(it.calls, <<"is_less_than_num_seqs", i>>)
        lw == LoadWindow(i)
        c2 == Append(c1, <<"load_seqs", lw[1], lw[2]>>)
        bad == IF Len(ks) > 0 /\ ~(lw[1] <= i /\ i < lw[2]) THEN 1
               ELSE IF fault.call = "get_data" /\ fault.pos <= Len(ks) THEN fault.pos
               ELSE 0
    IN  IF fault.call = "is_less_than_num_seqs" THEN Raise(it, c1)
        ELSE IF ~is_less_than_num_seqs(ds, i) THEN Finish(it, c1, NoExc)
        ELSE IF fault.call = "load_seqs" THEN Raise(it, c2)
        ELSE IF bad > 0
        THEN Raise(it, c2 \o GetDataCalls(i, ks, bad))
        ELSE [it |-> [it EXCEPT !.st = "suspended",
                                !.calls = c2 \o GetDataCalls(i, ks, Len(ks)),
                                !.yielded = Append(it.yielded, i)],
              out |-> [kind |-> "yield", item |-> BuildData(ds, ep, i, ks)]]

\* next(generator): run the body of __iter__ from where it stands.
Resume(it, ds, ep, fault) ==
    IF it.st = "fresh"
    THEN LET c0 == Append(it.calls, <<"get_data_keys">>)
         IN  IF fault.call = "get_data_keys" THEN Raise(it, c0)
             ELSE LoopPass([it EXCEPT !.data_keys = get_data_keys(ds),
                                      !.seq_index = StartIndex,
                                      !.calls = c0], ds, ep, fault)
    ELSE IF it.st = "suspended"
    THEN LoopPass([it EXCEPT !.seq_index = NextIndex(it.seq_index)], ds, ep, fault)
    ELSE [it |-> it, out |-> [kind |-> "stop"]]

NextItem(i, fault) ==
    /\ iters[i].st # "none"
    /\ LET r == Resume(iters[i], w.dataset, epoch, fault)
       IN  /\ iters' = [iters EXCEPT ![i] = r.it]
           /\ ret' = [op |-> "next", it |-> i] @@ r.out
    /\ UNCHANGED <<w, epoch>>

\* IterableDatasetWrapper.__getitem__: not supported.
IterableGetItem(index) ==
    /\ w.kind = "IterableDatasetWrapper"
    /\ ret' = [op |-> "getitem", kind |-> "raise", exc |-> "Exception"]
    /\ UNCHANGED <<w, iters, epoch>>

\* -------------------------------------------------------------- map style
\* __len__ of the two map-style classes.
LenOf(kind, ds) ==
    IF kind = "MapStyleDatasetPerEpochWrapper" THEN num_seqs(ds)
    ELSE get_total_num_seqs(ds)

Length ==
    /\ w.kind \in MapKinds
    /\ ret' = IF ~w.attrs
              THEN [op |-> "len", kind |-> "raise", exc |-> "AttributeError"]
              ELSE [op |-> "len", kind |-> "ok", value |-> LenOf(w.kind, w.dataset)]
    /\ UNCHANGED <<w, iters, epoch>>

\* The corpus index __getitem__ hands to get_corpus_seq.
CorpusIndex(kind, ds, ep, index) ==
    IF kind = "MapStyleDatasetPerEpochWrapper"
    THEN get_corpus_seq_idx(ds, ep, index)
    ELSE index

\* The dataset calls of one __getitem__, in order.
GetItemCalls(kind, ds, ep, index) ==
    (IF kind = "MapStyleDatasetPerEpochWrapper"
     THEN <<<<"get_corpus_seq_idx", index>>>> ELSE << >>)
    \o <<<<"get_corpus_seq", CorpusIndex(kind, ds, ep, index)>>>>

\* __getitem__(index) of the two map-style classes.  The dataset refuses an
\* index outside its range, and any of its calls may fail.
GetItem(index, fault) ==
    /\ w.kind \in MapKinds
    /\ fault.call \in {"none", "get_corpus_seq_idx", "get_corpus_seq"}
    /\ ret' =
        IF ~w.attrs
        THEN [op |-> "getitem", kind |-> "raise", index |-> index,
              exc |-> "AttributeError", calls |-> << >>]
        ELSE LET ds == w.dataset
                 cs == GetItemCalls(w.kind, ds, epoch, index)
                 c  == CorpusIndex(w.kind, ds, epoch, index)
                 n1 == IF w.kind = "MapStyleDatasetPerEpochWrapper"
                          /\ (fault.call = "get_corpus_seq_idx"
                              \/ ~(0 <= index /\ index < num_seqs(ds)))
                       THEN 1 ELSE 0
                 n2 == IF fault.call = "get_corpus_seq"
                          \/ ~(0 <= c /\ c < get_total_num_seqs(ds))
                       THEN Len(cs) ELSE 0
                 n  == IF n1 > 0 THEN n1 ELSE n2
             IN  IF n > 0
                 THEN [op |-> "getitem", kind |-> "raise", index |-> index,
                       exc |-> DatasetError(cs[n]), calls |-> SubSeq(cs, 1, n)]
                 ELSE [op |-> "getitem", kind |-> "ok", index |-> index,
                       value |-> corpus_seq_features(ds, c), calls |-> cs]
    /\ UNCHANGED <<w, iters, epoch>>

\* ------------------------------------------------------------- properties
\* The generators that exist.
Live == {i \in IterIds : iters[i].st # "none"}

\* <<0, 1, ..., n-1>>
FirstIndices(n) == [j \in 1..n |-> j - 1]

\* The generator ended by return, not by an exception.
Exhausted(it) == it.st = "closed" /\ it.raised = NoExc

\* C1: iterating an IterableDatasetWrapper over a dataset of N sequences
\* yields the items of the sequence indices 0, 1, ..., in this order, none
\* skipped or repeated and never more than N of them; the item a next() yields
\* as the k-th is built from sequence k; an iteration that ends has yielded
\* exactly N items; with N = 0 nothing is yielded and neither load_seqs nor
\* get_data is ever called.
C1_YieldsEachIndexOnce ==
    /\ \A i \in Live :
        LET it == iters[i]
            N  == w.dataset.numSeqs
        IN  /\ it.yielded = FirstIndices(Len(it.yielded))
            /\ Len(it.yielded) <= N
            /\ Exhausted(it) => Len(it.yielded) = N
            /\ it.st = "suspended" => it.seq_index = Len(it.yielded) - 1
            /\ N = 0 => /\ it.yielded = << >>
                        /\ \A j \in 1..Len(it.calls) :
                              it.calls[j][1] \notin {"load_seqs", "get_data"}
    /\ (ret.op = "next" /\ ret.kind = "yield") =>
        LET it == iters[ret.it]
        IN  /\ it.st = "suspended"
            /\ \A k \in DOMAIN ret.item : ret.item[k].seq = Len(it.yielded) - 1

\* An iteration over a dataset of at least two sequences has run to its end.
C1_Witness ==
    \E i \in Live :
        /\ Exhausted(iters[i])
        /\ w.dataset.numSeqs >= 2
        /\ Len(iters[i].yielded) = w.dataset.numSeqs
        /\ w.dataset.keys # << >>

\* C2: an item yielded for sequence index i is a mapping whose keys are
\* exactly the dataset's get_data_keys() and whose value at key k is the
\* dataset's get_data(i, k).
C2_ItemIsKeysToData ==
    (ret.op = "next" /\ ret.kind = "yield") =>
        LET i  == iters[ret.it].seq_index
            ds == w.dataset
        IN  /\ DOMAIN ret.item = Range(get_data_keys(ds))
            /\ \A k \in DOMAIN ret.item : ret.item[k] = get_data(ds, epoch, i, k)

\* A later item of a dataset with two data keys was yielded in a later epoch.
C2_Witness ==
    /\ ret.op = "next" /\ ret.kind = "yield"
    /\ Len(w.dataset.keys) = 2
    /\ iters[ret.it].seq_index >= 1
    /\ epoch >= 1

\* C3: each of the three wrappers can be constructed over a dataset D with or
\* without a reset callback, and reset() of the wrapper then returns having
\* invoked the callback exactly once with D if one was supplied, and having
\* called nothing otherwise.
C3_ResetInvokesCallbackOnce ==
    /\ (ret.op = "construct" /\ ret.args.given) =>
          /\ ret.kind = "ok"
          /\ w = WithAttrs(ret.cls, ret.args)
    /\ ret.op = "reset" =>
          /\ ret.kind = "ok"
          /\ ret.cbCalls = IF w.callback # None
                           THEN <<[cb |-> w.callback, arg |-> w.dataset]>>
                           ELSE << >>

\* C4: a map-style wrapper can be constructed over a dataset D, and its length
\* is then D.num_seqs (per epoch) or D.get_total_num_seqs() (full) whenever
\* it is asked.
C4_LenIsDatasetValue ==
    /\ (ret.op = "construct" /\ ret.cls \in MapKinds /\ ret.args.given
            /\ CapabilitiesOk(ret.cls, ret.args.dataset)) =>
          /\ ret.kind = "ok"
          /\ w.dataset = ret.args.dataset
    /\ ret.op = "len" =>
          /\ ret.kind = "ok"
          /\ w.kind = "MapStyleDatasetPerEpochWrapper" => ret.value = num_seqs(w.dataset)
          /\ w.kind = "MapStyleDatasetFullWrapper" =>
                ret.value = get_total_num_seqs(w.dataset)

\* C5: a MapStyleDatasetPerEpochWrapper can be constructed over a dataset D,
\* and __getitem__(i) then asks D.get_corpus_seq_idx(i) for the corpus index c
\* and returns the features of D.get_corpus_seq(c).
C5_PerEpochGetItemMapsIndex ==
    /\ (ret.op = "construct" /\ ret.cls = "MapStyleDatasetPerEpochWrapper"
            /\ ret.args.given /\ CapabilitiesOk(ret.cls, ret.args.dataset)) =>
          /\ ret.kind = "ok"
          /\ w.dataset = ret.args.dataset
    /\ (ret.op = "getitem" /\ w.kind = "MapStyleDatasetPerEpochWrapper") =>
          /\ w.attrs
          /\ Len(ret.calls) >= 1 /\ ret.calls[1] = <<"get_corpus_seq_idx", ret.index>>
          /\ \A j \in 1..Len(ret.calls) :
                ret.calls[j][1] = "get_corpus_seq" =>
                    ret.calls[j][2] = get_corpus_seq_idx(w.dataset, epoch, ret.index)
          /\ ret.kind = "ok" =>
                ret.value = corpus_seq_features(
                    w.dataset, get_corpus_seq_idx(w.dataset, epoch, ret.index))

\* C6: a MapStyleDatasetFullWrapper can be constructed over a dataset D, and
\* __getitem__(i) then returns the features of D.get_corpus_seq(i), with no
\* index mapping.
C6_FullGetItemIsCorpusSeq ==
    /\ (ret.op = "construct" /\ ret.cls = "MapStyleDatasetFullWrapper"
            /\ ret.args.given /\ CapabilitiesOk(ret.cls, ret.args.dataset)) =>
          /\ ret.kind = "ok"
          /\ w.dataset = ret.args.dataset
    /\ (ret.op = "getitem" /\ w.kind = "MapStyleDatasetFullWrapper") =>
          /\ w.attrs
          /\ ret.calls \in {<< >>, <<<<"get_corpus_seq", ret.index>>>>}
          /\ ret.kind = "ok" => ret.value = corpus_seq_features(w.dataset, ret.index)

\* C7: constructing a map-style wrapper over a dataset that lacks a capability
\* the wrapper needs fails with an assertion failure, and no wrapper ever
\* refers to such a dataset.
C7_ConstructionAssertsCapabilities ==
    /\ (ret.op = "construct" /\ ret.cls \in MapKinds /\ ret.args.given
            /\ ~CapabilitiesOk(ret.cls, ret.args.dataset)) =>
          /\ ret.kind = "raise"
          /\ ret.exc = "AssertionError"
    /\ (w.kind \in MapKinds /\ w.attrs) => CapabilitiesOk(w.kind, w.dataset)

\* C8: when load_seqs(i, i+1) or get_data(i, k) fails during an iteration, the
\* caller of next() gets the exception of that very dataset call, has received
\* exactly the items of the indices 0..i-1 before, and the generator is
\* finished: it yields no item for i or for any later index.
C8_FailureSurfacesUnchanged ==
    /\ \A n \in Live :
        LET it == iters[n]
            c  == it.calls[Len(it.calls)]
        IN  it.raised # NoExc =>
              /\ it.st = "closed"
              /\ it.raised = DatasetError(c)
              /\ c[1] \in {"load_seqs", "get_data"} =>
                    /\ it.yielded = FirstIndices(c[2])
                    /\ c[1] = "load_seqs" => c[3] = c[2] + 1
    /\ (ret.op = "next" /\ ret.kind = "raise") => ret.exc = iters[ret.it].raised
    /\ (ret.op = "next" /\ ret.kind = "yield") => iters[ret.it].raised = NoExc

\* get_data failed at the second sequence, after the first item was yielded,
\* and next() was called again on the finished generator.
C8_Witness ==
    /\ ret.op = "next" /\ ret.kind = "stop"
    /\ iters[ret.it].raised # NoExc
    /\ iters[ret.it].raised.call[1] = "get_data"
    /\ iters[ret.it].raised.call[2] = 1
    /\ iters[ret.it].yielded = <<0>>

\* The operations C9 names: reset, iteration, length and index operations.
UseOps == {"reset", "iter", "next", "len", "getitem"}

C10_CallOrder ==
    \A n \in Live :
        LET cs == iters[n].calls
            ds == w.dataset
        IN  \A j \in 1..Len(cs) :
              LET c == cs[j]
              IN  /\ (c[1] = "get_data_keys") = (j = 1)
                  /\ c[1] = "load_seqs" =>
                        /\ c[3] = c[2] + 1
                        /\ cs[j - 1] = <<"is_less_than_num_seqs", c[2]>>
                        /\ is_less_than_num_seqs(ds, c[2])
                        /\ \A h \in 1..(j - 1) :
                              cs[h][1] = "load_seqs" => cs[h][2] < c[2]
                  /\ c[1] = "get_data" =>
                        /\ cs[j - 1][1] \in {"load_seqs", "get_data"}
                        /\ cs[j - 1][2] = c[2]
                  /\ c[1] = "is_less_than_num_seqs" =>
                        /\ j = 2 => c[2] = 0
                        /\ j > 2 =>
                              /\ cs[j - 1][1] \in {"load_seqs", "get_data"}
                              /\ cs[j - 1][2] + 1 = c[2]
                        /\ ~is_less_than_num_seqs(ds, c[2]) => j = Len(cs)

\* An iteration over two sequences with two data keys has made all its calls.
C10_Witness ==
    \E n \in Live :
        /\ Exhausted(iters[n])
        /\ Len(iters[n].calls) = 10
        /\ iters[n].calls[10] = <<"is_less_than_num_seqs", 2>>

\* ---------------------------------------------------------- specification
Indices == 0..MaxSeqs

Next ==
    \/ \E kind \in Kinds, args \in CtorArgs : Construct(kind, args)
    \/ \E args \in CtorArgs : CallInt(args)
    \/ Reset
    \/ \E i \in IterIds : Iter(i)
    \/ \E i \in IterIds, fault \in Faults : NextItem(i, fault)
    \/ \E index \in Indices : IterableGetItem(index)
    \/ Length
    \/ \E index \in Indices, fault \in Faults : GetItem(index, fault)

Spec == Init /\ [][Next]_vars
====
